---- MODULE Spec2Model ----
(***************************************************************************)
(* A model of the ball tree of linfa-nn (algorithms/linfa-nn/src/           *)
(* balltree.rs): construction (BallTree::new, BallTreeInner::new,           *)
(* partition, calc_radius) and the two queries (k_nearest, within_range)    *)
(* that run nn_helper.                                                      *)
(*                                                                          *)
(* Numbers.  Coordinates are small naturals and arithmetic is exact.  The   *)
(* distance function is the Euclidean one (L2Dist): the reduced distance    *)
(* is the squared distance, rdist_to_dist is the square root and            *)
(* dist_to_rdist the square.  A real distance is kept in the closed form    *)
(* (sqrt(a) - sqrt(b)) / n  as the record [a, b, n]; a reduced distance is  *)
(* kept as the record [p, q, m] that stands for ((sqrt(p) - sqrt(q)) / m)^2.*)
(* Comparisons of such values are decided exactly in integer arithmetic.    *)
(*                                                                          *)
(* Records are written with their fields in the order TLC keeps them in.    *)
(*                                                                          *)
(* A point is a view of a row of the batch: it is modelled as the row's     *)
(* index, so two equal rows stay two different points.                      *)
(***************************************************************************)
EXTENDS Integers, Sequences, FiniteSets, TLC

\* Bounds of the model.
MaxCoord == 2
MaxRows == 3
MaxCols == 2
MaxLeafSize == 3
MaxK == 3
MaxRange == 2
MaxDepth == 3

VARIABLES
    batch,      \* the Array2 given to BallTree::new: [ncols, rows]
    leaf_size,  \* the leaf_size given to BallTree::new
    bpc,        \* where the build call is: "start", "building", "built", "err", "panic", "overflow"
    stack,      \* the pending calls of BallTreeInner::new: <<[path, points]>>, top first
    tree,       \* the nodes built so far, by their path from the root (0 = left, 1 = right)
    dim,        \* BallTree.dim
    len,        \* BallTree.len
    qpc,        \* per query thread: "idle", "run", "done"
    qarg,       \* per query thread: the arguments of nn_helper [op, point, k, max_radius]
    queue,      \* per query thread: the local min-priority queue of nn_helper
    out,        \* per query thread: the local bounded max-heap of nn_helper
    qres        \* per query thread: what the call returned

vars == <<batch, leaf_size, bpc, stack, tree, dim, len, qpc, qarg, queue, out, qres>>
buildVars == <<batch, leaf_size, bpc, stack, tree, dim, len>>
queryVars == <<qpc, qarg, queue, out, qres>>

Threads == {1, 2}
Infinity == [inf |-> TRUE]
None == "none"

----------------------------------------------------------------------------
\* Small helpers.

Coords == 0..MaxCoord
Vecs(d) == [1..d -> Coords]

RECURSIVE SumTo(_, _)
SumTo(f, n) == IF n = 0 THEN 0 ELSE f[n] + SumTo(f, n - 1)

SetMax(S) == CHOOSE x \in S : \A y \in S : y <= x
SetMin(S) == CHOOSE x \in S : \A y \in S : x <= y

Sign(x) == IF x > 0 THEN 1 ELSE IF x < 0 THEN -1 ELSE 0

\* The sequences that hold the elements of s in some order.
Perms(s) ==
    LET n == Len(s)
        bij == {f \in [1..n -> 1..n] : \A i, j \in 1..n : i # j => f[i] # f[j]}
    IN  {[i \in 1..n |-> s[f[i]]] : f \in bij}

\* s without its i-th element.
RemoveAt(s, i) == [j \in 1..(Len(s) - 1) |-> IF j < i THEN s[j] ELSE s[j + 1]]

\* The i-th row of the batch.
Row(i) == batch.rows[i]

----------------------------------------------------------------------------
\* Exact comparison of the closed forms.

\* sign(a/b - c/d) for a, c >= 0 and b, d > 0, by continued fractions
\* (no product is formed, so nothing overflows).
RECURSIVE FracCmp(_, _, _, _)
FracCmp(a, b, c, d) ==
    LET qa == a \div b
        qc == c \div d
        ra == a % b
        rc == c % d
    IN  IF qa # qc THEN Sign(qa - qc)
        ELSE IF ra = 0 /\ rc = 0 THEN 0
        ELSE IF ra = 0 THEN -1
        ELSE IF rc = 0 THEN 1
        ELSE -FracCmp(b, ra, d, rc)

\* sign(8 * sqrt(P * Q) - Y) for P, Q >= 0.
RootCmp(P, Q, Y) ==
    IF Y < 0 THEN 1
    ELSE IF P = 0 \/ Q = 0 THEN (IF Y = 0 THEN 0 ELSE -1)
    ELSE IF Y = 0 THEN 1
    ELSE FracCmp(8 * P, Y, Y, 8 * Q)

\* sign(X + 2 * sqrt(P) - 2 * sqrt(Q)) for P, Q >= 0.
SurdSign(X, P, Q) ==
    IF X >= 0 /\ P >= Q THEN (IF X = 0 /\ P = Q THEN 0 ELSE 1)
    ELSE IF X <= 0 /\ P <= Q THEN -1
    ELSE IF X > 0 THEN RootCmp(P, Q, 4 * P + 4 * Q - X * X)
    ELSE -RootCmp(P, Q, 4 * P + 4 * Q - X * X)

\* sign(x - y) of two reduced distances x = ((sqrt(p) - sqrt(q)) / m)^2 with
\* p >= q: the sign of sqrt(x) - sqrt(y).
RCmp(x, y) ==
    LET A == y.m * y.m * x.p
        B == y.m * y.m * x.q
        C == x.m * x.m * y.p
        D == x.m * x.m * y.q
    IN  SurdSign(A + D - C - B, A * D, C * B)

\* Orderings of reduced distances; +infinity is above every other value.
RLt(x, y) == IF x = Infinity THEN FALSE ELSE IF y = Infinity THEN TRUE ELSE RCmp(x, y) < 0
RLeq(x, y) == IF y = Infinity THEN TRUE ELSE IF x = Infinity THEN FALSE ELSE RCmp(x, y) <= 0
RGeq(x, y) == RLeq(y, x)
RGt(x, y) == RLt(y, x)

----------------------------------------------------------------------------
\* The distance function (L2Dist).  A center is [sum, n]: the vector sum / n.

PointCenter(p) == [n |-> 1, sum |-> p]

\* The squared Euclidean distance of the point a to the center c.
RDistance(a, c) ==
    [m |-> c.n,
     p |-> SumTo([i \in 1..Len(a) |->
                    (c.n * a[i] - c.sum[i]) * (c.n * a[i] - c.sum[i])], Len(a)),
     q |-> 0]

\* The square root of a reduced distance, and the square of a distance.
RDistToDist(r) == [n |-> r.m, a |-> r.p, b |-> r.q]
DistToRDist(d) == [m |-> d.n, p |-> d.a, q |-> d.b]

Distance(a, c) == RDistToDist(RDistance(a, c))

\* The distance that is the integer r, and the distance zero.
DistOfInt(r) == [n |-> 1, a |-> r * r, b |-> 0]
DistZero == DistOfInt(0)

\* d1 - d2 for two distances sqrt(a)/n (b = 0), and max(d, 0).
DistSub(d1, d2) ==
    IF d1.n = d2.n THEN [n |-> d1.n, a |-> d1.a, b |-> d2.a]
    ELSE [n |-> d1.n * d2.n, a |-> d1.a * d2.n * d2.n, b |-> d2.a * d1.n * d1.n]
DistMaxZero(d) == IF d.a <= d.b THEN DistZero ELSE d

----------------------------------------------------------------------------
\* partition and calc_radius.  points is a sequence of row indices.

Elems(points) == {points[i] : i \in 1..Len(points)}

\* max - min of the points' coordinates on dimension d.
Spread(points, d) ==
    SetMax({Row(pt)[d] : pt \in Elems(points)}) - SetMin({Row(pt)[d] : pt \in Elems(points)})

\* Iterator::max_by_key returns the last of several equally maximal elements.
MaxSpreadDim(points) ==
    LET nd == Len(Row(points[1]))
        best == SetMax({Spread(points, d) : d \in 1..nd})
    IN  SetMax({d \in 1..nd : Spread(points, d) = best})

\* A reordering that selects nothing: the variant that C22 has to tell from
\* kth_by.
KthByUnordered(points, k, d) == Perms(points)

\* order_stat::kth_by reorders the points so that the element of rank k
\* (zero-based) is at index k, no element before it is greater and no
\* element after it is smaller; the order is otherwise not specified.
KthBy(points, k, d) ==
    {s \in Perms(points) :
        /\ \A i \in 1..k : Row(s[i])[d] <= Row(s[k + 1])[d]
        /\ \A i \in (k + 2)..Len(s) : Row(s[i])[d] >= Row(s[k + 1])[d]}

\* partition without its last statement (the move of one point from right to
\* left when left is empty): the variant that C9 has to tell from partition.
PartitionUnguarded(points) ==
    LET d == MaxSpreadDim(points)
        mid == Len(points) \div 2
    IN  {LET median == s[mid + 1]
             Below(pt) == Row(pt)[d] < Row(median)[d]
             NotBelow(pt) == ~Below(pt)
         IN  [median |-> median, right |-> SelectSeq(s, NotBelow),
              left |-> SelectSeq(s, Below)]
         : s \in KthBy(points, mid, d)}

\* A partition that takes the median out of the points before it splits them
\* (for two points or more): the variant that C18 has to tell from partition.
PartitionMedianApart(points) ==
    LET d == MaxSpreadDim(points)
        mid == Len(points) \div 2
    IN  {LET median == s[mid + 1]
             Below(pt) == Row(pt)[d] < Row(median)[d]
             Others(pt) == ~Below(pt) /\ (pt # median \/ Len(points) < 2)
             left == SelectSeq(s, Below)
             right == SelectSeq(s, Others)
         IN  IF left = <<>>
             THEN [median |-> median, right |-> SubSeq(right, 1, Len(right) - 1),
                   left |-> <<right[Len(right)]>>]
             ELSE [median |-> median, right |-> right, left |-> left]
         : s \in KthBy(points, mid, d)}

\* What partition(points) may return: [left, median, right].
Partition(points) ==
    LET d == MaxSpreadDim(points)
        mid == Len(points) \div 2
    IN  {LET median == s[mid + 1]
             Below(pt) == Row(pt)[d] < Row(median)[d]
             NotBelow(pt) == ~Below(pt)
             left == SelectSeq(s, Below)
             right == SelectSeq(s, NotBelow)
         IN  IF left = <<>>
             THEN [median |-> median, right |-> SubSeq(right, 1, Len(right) - 1),
                   left |-> <<right[Len(right)]>>]
             ELSE [median |-> median, right |-> right, left |-> left]
         : s \in KthBy(points, mid, d)}

\* calc_radius with min() in the place of max(): the variant that C11 has to
\* tell from calc_radius.
CalcRadiusMin(points, center) ==
    LET ds == {RDistance(Row(pt), center) : pt \in Elems(points)}
        r_rad == CHOOSE r \in ds : \A x \in ds : RLeq(r, x)
    IN  RDistToDist(r_rad)

\* The radius of the bounding sphere of the points around the center.
CalcRadius(points, center) ==
    LET ds == {RDistance(Row(pt), center) : pt \in Elems(points)}
        r_rad == CHOOSE r \in ds : \A x \in ds : RLeq(x, r)
    IN  RDistToDist(r_rad)

----------------------------------------------------------------------------
\* BallTreeInner::new, one call at a time.

\* The first point as the center of a leaf: the variant that C27 has to tell
\* from the mean.
FirstPointCenter(points) == PointCenter(Row(points[1]))

\* The centroid of a non-empty leaf.
Centroid(points) ==
    LET nd == Len(Row(points[1]))
    IN  [n |-> Len(points),
         sum |-> [i \in 1..nd |->
                    SumTo([j \in 1..Len(points) |-> Row(points[j])[i]], Len(points))]]

LeafNode(points) ==
    IF points # <<>>
    THEN LET center == Centroid(points)
         IN  [points |-> points, center |-> center,
              radius |-> CalcRadius(points, center), kind |-> "Leaf"]
    ELSE [points |-> points, center |-> [n |-> 1, sum |-> <<>>],
          radius |-> DistZero, kind |-> "Leaf"]

\* A branch whose radius covers the left part only: the variant that C28 has
\* to tell from the branch of BallTreeInner::new.
BranchNodeLeftRadius(part) ==
    LET center == PointCenter(Row(part.median))
    IN  [center |-> center, radius |-> CalcRadius(part.left, center),
         kind |-> "Branch", median |-> part.median]

BranchNode(part) ==
    LET center == PointCenter(Row(part.median))
    IN  [center |-> center, radius |-> CalcRadius(part.left \o part.right, center),
         kind |-> "Branch", median |-> part.median]

\* A leaf test that lets one point more into a leaf: the variant that C24 has
\* to tell from the test of BallTreeInner::new.
IsLeafCallLoose(points) == Len(points) <= leaf_size + 1

IsLeafCall(points) == Len(points) <= leaf_size

Top == stack[1]

\* A test of the columns that is off by one: the variant that C7 has to tell
\* from the test of BallTree::new.
AtMostOneColumn(b) == b.ncols <= 1

\* BallTree::new up to the first call of BallTreeInner::new.
ZeroColumns(b) == b.ncols = 0

New ==
    /\ bpc = "start"
    /\ IF ZeroColumns(batch)
       THEN /\ bpc' = "err"
            /\ stack' = stack
       ELSE /\ bpc' = "building"
            /\ stack' = <<[points |-> [i \in 1..Len(batch.rows) |-> i], path |-> <<>>]>>
    /\ UNCHANGED <<batch, leaf_size, tree, dim, len>>
    /\ UNCHANGED queryVars

\* The call on top of the stack builds a Leaf.
NewLeaf ==
    /\ bpc = "building" /\ stack # <<>>
    /\ IsLeafCall(Top.points)
    /\ tree' = tree @@ (Top.path :> LeafNode(Top.points))
    /\ stack' = Tail(stack)
    /\ UNCHANGED <<batch, leaf_size, bpc, dim, len>>
    /\ UNCHANGED queryVars

\* The call on top of the stack partitions its points and builds a Branch;
\* its two recursive calls are pushed, the left one first to run.  A call
\* with fewer than 2 points gets here only in a build without debug
\* assertions.
NewBranch ==
    /\ bpc = "building" /\ stack # <<>>
    /\ ~IsLeafCall(Top.points)
    /\ Len(Top.points) >= 2 \/ Len(Top.path) < MaxDepth
    /\ \E part \in Partition(Top.points) :
          /\ tree' = tree @@ (Top.path :> BranchNode(part))
          /\ stack' = <<[points |-> part.left, path |-> Top.path \o <<0>>],
                        [points |-> part.right, path |-> Top.path \o <<1>>]>>
                      \o Tail(stack)
    /\ UNCHANGED <<batch, leaf_size, bpc, dim, len>>
    /\ UNCHANGED queryVars

\* debug_assert!(points.len() >= 2) fails in a build with debug assertions.
PartitionAssert ==
    /\ bpc = "building" /\ stack # <<>>
    /\ ~IsLeafCall(Top.points)
    /\ Len(Top.points) < 2
    /\ bpc' = "panic"
    /\ UNCHANGED <<batch, leaf_size, stack, tree, dim, len>>
    /\ UNCHANGED queryVars

\* Without debug assertions a call with one point and leaf_size = 0 calls
\* itself with the same point for ever: the stack runs out.
StackOverflow ==
    /\ bpc = "building" /\ stack # <<>>
    /\ ~IsLeafCall(Top.points)
    /\ Len(Top.points) < 2 /\ Len(Top.path) >= MaxDepth
    /\ bpc' = "overflow"
    /\ UNCHANGED <<batch, leaf_size, stack, tree, dim, len>>
    /\ UNCHANGED queryVars

\* BallTree::new returns the index.
NewReturn ==
    /\ bpc = "building" /\ stack = <<>>
    /\ bpc' = "built"
    /\ dim' = batch.ncols
    /\ len' = Len(batch.rows)
    /\ UNCHANGED <<batch, leaf_size, stack, tree>>
    /\ UNCHANGED queryVars

Build == New \/ NewLeaf \/ NewBranch \/ PartitionAssert \/ StackOverflow \/ NewReturn

----------------------------------------------------------------------------
\* nn_helper, one iteration of its loop at a time.  Every query thread has
\* its own queue and its own result heap (they are locals of nn_helper).

\* One queue and one result heap for all the threads: the variant that C10
\* has to tell from the locals of nn_helper.
Shared(t) == 1

Local(t) == t

Root == tree[<<>>]

\* The reduced distance to the center of the node, its radius left out: the
\* variant that C1 has to tell from BallTreeInner::rdistance.
CenterRDistance(node, p) == DistToRDist(Distance(p, node.center))

\* rdistance without max(F::zero()): the variant that C15 has to tell from
\* BallTreeInner::rdistance.
NodeRDistanceUnclamped(node, p) ==
    DistToRDist(DistSub(Distance(p, node.center), node.radius))

\* BallTreeInner::rdistance: the lower bound of the reduced distance of p to
\* any point of the node's sphere.
NodeRDistance(node, p) ==
    LET border_dist == DistSub(Distance(p, node.center), node.radius)
    IN  DistToRDist(DistMaxZero(border_dist))

\* The reduced distance of the query point to the point (row) pt.
PointRDistance(point, pt) == RDistance(point, PointCenter(Row(pt)))

\* nn_helper without its two early returns: the variants that C6 and C5 have
\* to tell from them.
NoDimCheck(point) == FALSE
NoEmptyCheck == FALSE

DimMismatch(point) == dim # Len(point)

IndexEmpty == len = 0

\* The entries a pop of the min-queue may return, and the entries a peek or
\* a pop of the max-heap may return (BinaryHeap orders by dist alone).
MinIdx(q) == {i \in 1..Len(q) : \A j \in 1..Len(q) : RLeq(q[i].dist, q[j].dist)}
MaxIdx(o) == {i \in 1..Len(o) : \A j \in 1..Len(o) : RGeq(o[i].dist, o[j].dist)}
PeekDist(o) == o[CHOOSE i \in MaxIdx(o) : TRUE].dist

\* A test that breaks only when the popped distance has reached the limit
\* and, with k candidates in the heap, the worst of them as well: the variant
\* that C13 has to tell from the test of the loop.
StopTestBoth(dist, o, k, max_radius) ==
    IF ~RGeq(dist, max_radius) THEN "go"
    ELSE IF Len(o) = k
         THEN IF o = <<>> THEN "panic"
              ELSE IF RGeq(dist, PeekDist(o)) THEN "break" ELSE "go"
         ELSE "break"

\* The test of the loop on the popped entry: "break", "go" on, or "panic"
\* (peek().unwrap() on an empty heap).
StopTest(dist, o, k, max_radius) ==
    IF RGeq(dist, max_radius) THEN "break"
    ELSE IF Len(o) = k
         THEN IF o = <<>> THEN "panic"
              ELSE IF RGeq(dist, PeekDist(o)) THEN "break" ELSE "go"
         ELSE "go"

\* The test of the leaf scan with dist <= max_radius: the variant that C14
\* has to tell from the strict test.
AcceptsInclusive(d, o, k, max_radius) ==
    IF ~RLeq(d, max_radius) THEN "no"
    ELSE IF Len(o) < k THEN "yes"
    ELSE IF o = <<>> THEN "panic"
    ELSE IF RGt(PeekDist(o), d) THEN "yes" ELSE "no"

\* Does the leaf scan insert a point at reduced distance d?  "yes", "no" or
\* "panic".
Accepts(d, o, k, max_radius) ==
    IF ~RLt(d, max_radius) THEN "no"
    ELSE IF Len(o) < k THEN "yes"
    ELSE IF o = <<>> THEN "panic"
    ELSE IF RGt(PeekDist(o), d) THEN "yes" ELSE "no"

\* out.push(e) without the pop that bounds the heap: the variant that C3 has
\* to tell from the bounded push.
PushUnbounded(o, e, k) == {Append(o, e)}

\* out.push(e); if out.len() > k { out.pop(); }
PushBounded(o, e, k) ==
    LET pushed == Append(o, e)
    IN  IF Len(pushed) > k
        THEN {RemoveAt(pushed, i) : i \in MaxIdx(pushed)}
        ELSE {pushed}

\* The heaps the scan of points[i..] may leave, from the heap o.
RECURSIVE ScanLeaf(_, _, _, _, _, _)
ScanLeaf(o, points, i, point, k, max_radius) ==
    IF i > Len(points) THEN {[heap |-> o, panic |-> FALSE]}
    ELSE LET d == PointRDistance(point, points[i])
             a == Accepts(d, o, k, max_radius)
         IN  IF a = "panic" THEN {[heap |-> o, panic |-> TRUE]}
             ELSE IF a = "no" THEN ScanLeaf(o, points, i + 1, point, k, max_radius)
             ELSE UNION {ScanLeaf(o2, points, i + 1, point, k, max_radius)
                         : o2 \in PushBounded(o, [elem |-> points[i], dist |-> d], k)}

\* The Branch arm pushing its left child twice: the variant that C17 has to
\* tell from one push per child.
ChildEntriesTwice(path, point, max_radius) ==
    LET dl == NodeRDistance(tree[path \o <<0>>], point)
        dr == NodeRDistance(tree[path \o <<1>>], point)
        el == IF RLeq(dl, max_radius) THEN <<[elem |-> path \o <<0>>, dist |-> dl]>> ELSE <<>>
    IN  el \o el
        \o (IF RLeq(dr, max_radius) THEN <<[elem |-> path \o <<1>>, dist |-> dr]>> ELSE <<>>)

\* The Branch arm without its second push: the variant that C12 has to tell
\* from the two pushes.
ChildEntriesLeftOnly(path, point, max_radius) ==
    LET dl == NodeRDistance(tree[path \o <<0>>], point)
    IN  IF RLeq(dl, max_radius) THEN <<[elem |-> path \o <<0>>, dist |-> dl]>> ELSE <<>>

\* The entries pushed for the children of the branch at path.
ChildEntries(path, point, max_radius) ==
    LET dl == NodeRDistance(tree[path \o <<0>>], point)
        dr == NodeRDistance(tree[path \o <<1>>], point)
    IN  (IF RLeq(dl, max_radius) THEN <<[elem |-> path \o <<0>>, dist |-> dl]>> ELSE <<>>)
        \o (IF RLeq(dr, max_radius) THEN <<[elem |-> path \o <<1>>, dist |-> dr]>> ELSE <<>>)

\* out.into_vec(), the heap in its internal order: the variant that C4 has to
\* tell from into_sorted_vec.
UnsortedVecs(o) == Perms(o)

\* out.into_sorted_vec(): ascending by dist, equal dists in any order.
SortedVecs(o) ==
    {s \in Perms(o) : \A i, j \in 1..Len(s) : i < j => RLeq(s[i].dist, s[j].dist)}

OkResult(points) == [points |-> points, kind |-> "Ok"]
ErrResult == [points |-> <<>>, kind |-> "Err"]
PanicResult == [points |-> <<>>, kind |-> "Panic"]

\* The value of a call that has not returned.
NoResult == [points |-> <<>>, kind |-> "None"]

\* The state of one call of nn_helper: where it is, its two heaps and, once
\* it has returned, its value.
Returned(res) == [res |-> res, out |-> <<>>, queue |-> <<>>, pc |-> "done"]
Looping(q, o) == [res |-> NoResult, out |-> o, queue |-> q, pc |-> "run"]

\* Ok(out.into_sorted_vec() ... collect()): the points of the heap, sorted.
ReturnSorted(o) ==
    {Returned(OkResult([i \in 1..Len(s) |-> s[i].elem])) : s \in SortedVecs(o)}

\* nn_helper up to its loop, for the arguments a = [point, k, max_radius].
EnterCall(a) ==
    IF DimMismatch(a.point) THEN Returned(ErrResult)
    ELSE IF IndexEmpty THEN Returned(OkResult(<<>>))
    ELSE IF Len(a.point) # Len(Root.center.sum)
    THEN Returned(PanicResult)  \* the distance of two arrays of different shapes
    ELSE Looping(<<[elem |-> <<>>, dist |-> NodeRDistance(Root, a.point)]>>, <<>>)

\* One iteration of the loop from the heaps q and o: what it may leave.
Iterate(q, o, a) ==
    IF q = <<>> THEN ReturnSorted(o)
    ELSE UNION {
        LET e == q[i]
            rest == RemoveAt(q, i)
            st == StopTest(e.dist, o, a.k, a.max_radius)
        IN  IF st = "break" THEN ReturnSorted(o)
            ELSE IF st = "panic" THEN {Returned(PanicResult)}
            ELSE IF tree[e.elem].kind = "Leaf"
            THEN {IF r.panic THEN Returned(PanicResult) ELSE Looping(rest, r.heap)
                  : r \in ScanLeaf(o, tree[e.elem].points, 1, a.point, a.k, a.max_radius)}
            ELSE {Looping(rest \o ChildEntries(e.elem, a.point, a.max_radius), o)}
        : i \in MinIdx(q)}

\* Thread t's call moves to the state n.
Becomes(t, n) ==
    /\ qpc' = [qpc EXCEPT ![t] = n.pc]
    /\ qres' = [qres EXCEPT ![t] = n.res]
    /\ queue' = [queue EXCEPT ![Local(t)] = n.queue]
    /\ out' = [out EXCEPT ![Local(t)] = n.out]

Idle(t) == bpc = "built" /\ qpc[t] = "idle"

Call(t, a) ==
    /\ qarg' = [qarg EXCEPT ![t] = a]
    /\ Becomes(t, EnterCall(a))
    /\ UNCHANGED buildVars

QueryPoints == UNION {Vecs(d) : d \in 0..MaxCols}

\* k_nearest(point, k) = nn_helper(point, k, +infinity).
KNearest(t) ==
    /\ Idle(t)
    /\ \E point \in QueryPoints, k \in 0..MaxK :
          Call(t, [range |-> None, op |-> "k_nearest", point |-> point, k |-> k,
                   max_radius |-> Infinity])

\* within_range with a cap of one result: the variant that C16 has to tell
\* from the cap self.len.
WithinRangeCapOne(t) ==
    /\ Idle(t)
    /\ \E point \in QueryPoints, range \in 0..MaxRange :
          Call(t, [range |-> range, op |-> "within_range", point |-> point, k |-> 1,
                   max_radius |-> DistToRDist(DistOfInt(range))])

\* within_range(point, range) = nn_helper(point, len, dist_to_rdist(range)).
WithinRange(t) ==
    /\ Idle(t)
    /\ \E point \in QueryPoints, range \in 0..MaxRange :
          Call(t, [range |-> range, op |-> "within_range", point |-> point, k |-> len,
                   max_radius |-> DistToRDist(DistOfInt(range))])

\* One iteration of the loop of thread t's call.
LoopStep(t) ==
    /\ bpc = "built"
    /\ qpc[t] = "run"
    /\ \E n \in Iterate(queue[Local(t)], out[Local(t)], qarg[t]) : Becomes(t, n)
    /\ UNCHANGED qarg
    /\ UNCHANGED buildVars

\* The caller is done with the returned value and may call again.
Drop(t) ==
    /\ bpc = "built"
    /\ qpc[t] = "done"
    /\ qpc' = [qpc EXCEPT ![t] = "idle"]
    /\ qarg' = [qarg EXCEPT ![t] = None]
    /\ qres' = [qres EXCEPT ![t] = NoResult]
    /\ UNCHANGED <<queue, out>>
    /\ UNCHANGED buildVars

Query(t) == KNearest(t) \/ WithinRange(t) \/ LoopStep(t) \/ Drop(t)

\* What the call with the arguments a may return when it runs alone.
RECURSIVE RunAlone(_, _)
RunAlone(n, a) ==
    IF n.pc = "done" THEN {n.res}
    ELSE UNION {RunAlone(n2, a) : n2 \in Iterate(n.queue, n.out, a)}

----------------------------------------------------------------------------
\* The inputs.

Batches ==
    {[rows |-> <<>>, ncols |-> d] : d \in 0..MaxCols} \cup
    UNION {UNION {{[rows |-> r, ncols |-> d] : r \in [1..n -> Vecs(d)]}
                  : n \in 1..MaxRows} : d \in 0..MaxCols}

\* u <= v in the lexicographic order of two vectors of one length.
LexLeq(u, v) ==
    \A i \in 1..Len(u) : (\A j \in 1..(i - 1) : u[j] = v[j]) => u[i] <= v[i]

\* The batches whose rows are in lexicographic order.  The queries are
\* explored over these: the order of the rows decides only the order in which
\* a leaf that holds them is scanned.
SortedBatches ==
    {b \in Batches : \A i \in 1..(Len(b.rows) - 1) : LexLeq(b.rows[i], b.rows[i + 1])}

LeafSizes == 0..MaxLeafSize

InitWith(B, L) ==
    /\ batch \in B
    /\ leaf_size \in L
    /\ bpc = "start"
    /\ stack = <<>>
    /\ tree = <<>>
    /\ dim = None
    /\ len = None
    /\ qpc = [t \in Threads |-> "idle"]
    /\ qarg = [t \in Threads |-> None]
    /\ queue = [t \in Threads |-> <<>>]
    /\ out = [t \in Threads |-> <<>>]
    /\ qres = [t \in Threads |-> NoResult]

\* One build, then any number of queries, one after the other.
Init == InitWith(SortedBatches, LeafSizes)
Next == Build \/ Query(1)
Spec == Init /\ [][Next]_vars

\* The queries on the indexes of one column, where a call of nn_helper that
\* is in its loop goes on: nothing but the loop itself can hold it up.  Every
\* iteration changes the queue or ends the call.
QueryBatches == {b \in SortedBatches : b.ncols = 1}
InitQuery == InitWith(QueryBatches, LeafSizes)
loopVars == <<qpc, queue, out>>
SpecQueryFair == InitQuery /\ [][Next]_vars /\ WF_loopVars(LoopStep(1))

\* The build alone, over every batch.
InitBuild == InitWith(Batches, LeafSizes)
NextBuild == Build
SpecBuild == InitBuild /\ [][NextBuild]_vars
SpecBuildFair == SpecBuild /\ WF_vars(NextBuild)

\* The build over every batch and the two batches of partition_test, whose
\* coordinates go up to 3.
TestBatches ==
    {[rows |-> <<<<0, 1>>, <<2, 3>>>>, ncols |-> 2],
     [rows |-> <<<<2, 3>>, <<0, 1>>>>, ncols |-> 2]}
InitTests == InitWith(Batches \cup TestBatches, LeafSizes)
SpecTests == InitTests /\ [][NextBuild]_vars

\* b * e in the place of b to the power e: the variant that C30 has to tell
\* from usize::pow.
Times(b, e) == b * e

\* usize::pow.
RECURSIVE Pow(_, _)
Pow(b, e) == IF e = 0 THEN 1 ELSE b * Pow(b, e - 1)

\* BallTreeBuilder::from_batch calls BallTree::new with the leaf size
\* 2usize.pow(4) and hands its result back.  With that leaf size and the
\* batches explored no call of BallTreeInner::new partitions.
FromBatchLeafSize == Pow(2, 4)
InitFromBatch == InitWith(Batches, {FromBatchLeafSize})
NextFromBatch == New \/ NewLeaf \/ NewReturn
SpecFromBatch == InitFromBatch /\ [][NextFromBatch]_vars

\* Two threads query one index at the same time, their steps interleaved in
\* any order.  The index is one of a single column with at least two rows,
\* all different, and a leaf size of at least 1, so that the build returns
\* it; a query point half way between two rows still has two answers.
ConcBatches ==
    {b \in SortedBatches :
        /\ b.ncols = 1 /\ Len(b.rows) >= 2
        /\ \A i \in 1..(Len(b.rows) - 1) : b.rows[i] # b.rows[i + 1]}
ConcLeafSizes == {1, MaxLeafSize}
InitConc == InitWith(ConcBatches, ConcLeafSizes)
NextConc == New \/ NewLeaf \/ NewBranch \/ NewReturn \/ Query(1) \/ Query(2)
SpecConc == InitConc /\ [][NextConc]_vars

----------------------------------------------------------------------------
\* What the claims are stated with.

Min2(x, y) == IF x <= y THEN x ELSE y

NRows == Len(batch.rows)

\* The squared distance of the query point to row i, by the definition.
RowDist(point, i) ==
    SumTo([c \in 1..Len(point) |-> (point[c] - Row(i)[c]) * (point[c] - Row(i)[c])],
          Len(point))

\* The squared distances of all rows to the query point, ascending: the
\* linear scan.
LinearScan(point) ==
    CHOOSE s \in Perms([i \in 1..NRows |-> RowDist(point, i)]) :
        \A i, j \in 1..Len(s) : i < j => s[i] <= s[j]

\* Thread t's call has returned; it was a call of op with a point of the
\* index's dimensionality.
Done(t) == bpc = "built" /\ qpc[t] = "done"
DoneValid(t, op) == Done(t) /\ qarg[t].op = op /\ Len(qarg[t].point) = dim

\* The squared distances of the returned points to the query point.
ResultDists(t) ==
    [i \in 1..Len(qres[t].points) |-> RowDist(qarg[t].point, qres[t].points[i])]

Ascending(s) == \A i, j \in 1..Len(s) : i < j => s[i] <= s[j]
NoRepeat(s) == \A i, j \in 1..Len(s) : i # j => s[i] # s[j]

IsBranchRoot == <<>> \in DOMAIN tree /\ tree[<<>>].kind = "Branch"

\* C1: k_nearest with k >= 1 and a point of the index's dimensionality
\* returns min(k, len) points whose distances to the query are the min(k, len)
\* smallest distances of a linear scan; with k = len it returns every row.
C1_KNearestIsLinearScan ==
    \A t \in Threads :
        DoneValid(t, "k_nearest") /\ qarg[t].k >= 1 =>
            /\ qres[t].kind = "Ok"
            /\ Len(qres[t].points) = Min2(qarg[t].k, len)
            /\ ResultDists(t) = SubSeq(LinearScan(qarg[t].point), 1, Min2(qarg[t].k, len))
            /\ qarg[t].k = len => Elems(qres[t].points) = 1..len

\* A 2-nearest query on a tree of three different rows with a Branch root,
\* in which the nearest row is not the first of the batch.
C1_Witness ==
    /\ DoneValid(1, "k_nearest") /\ qarg[1].k = 2 /\ len = 3
    /\ IsBranchRoot
    /\ NoRepeat(batch.rows)
    /\ qres[1].kind = "Ok" /\ Len(qres[1].points) = 2
    /\ qres[1].points[1] # 1

\* C2: within_range(point, r) returns exactly the rows at distance <= r of
\* the query point, a row at distance exactly r included.
C2_WithinRangeInclusive ==
    \A t \in Threads :
        DoneValid(t, "within_range") =>
            /\ qres[t].kind = "Ok"
            /\ NoRepeat(qres[t].points)
            /\ Elems(qres[t].points) =
                  {i \in 1..len : RowDist(qarg[t].point, i) <= qarg[t].range * qarg[t].range}

\* C3: k_nearest with k >= 1 returns at most k points, in non-decreasing
\* distance to the query, each a row of the batch and no row twice.
C3_KNearestBoundedSortedSubset ==
    \A t \in Threads :
        DoneValid(t, "k_nearest") /\ qarg[t].k >= 1 =>
            /\ qres[t].kind = "Ok"
            /\ Len(qres[t].points) <= qarg[t].k
            /\ Ascending(ResultDists(t))
            /\ Elems(qres[t].points) \subseteq 1..NRows
            /\ NoRepeat(qres[t].points)

\* A 1-nearest query over three rows stored in one leaf: two candidates were
\* turned away or evicted.
C3_Witness ==
    /\ DoneValid(1, "k_nearest") /\ qarg[1].k = 1 /\ len = 3
    /\ ~IsBranchRoot
    /\ qres[1].kind = "Ok" /\ Len(qres[1].points) = 1
    /\ qres[1].points[1] = 3

\* C4: within_range returns its points in non-decreasing distance to the
\* query point.
C4_WithinRangeAscending ==
    \A t \in Threads :
        DoneValid(t, "within_range") =>
            qres[t].kind = "Ok" /\ Ascending(ResultDists(t))

\* A range query that returned two rows at different distances, the nearer
\* of which is later in the batch.
C4_Witness ==
    /\ DoneValid(1, "within_range")
    /\ qres[1].kind = "Ok" /\ Len(qres[1].points) >= 2
    /\ ResultDists(1)[1] < ResultDists(1)[2]
    /\ qres[1].points[1] > qres[1].points[2]

\* C5 as stated: on an index of zero rows every query returns an empty
\* sequence and never an error, whatever the length of the query point.
C5_EmptyIndexNeverErrs ==
    \A t \in Threads :
        Done(t) /\ len = 0 => qres[t] = OkResult(<<>>)

\* C5 as amended: on an index of zero rows every query with a point of the
\* index's dimensionality returns an empty sequence, for every k and radius;
\* a query with a point of another length returns WrongDimension.
C5_EmptyIndexEmptyResult ==
    \A t \in Threads :
        Done(t) /\ len = 0 =>
            qres[t] = IF Len(qarg[t].point) = dim THEN OkResult(<<>>) ELSE ErrResult

\* A range query with a well-shaped point has returned on an empty index.
C5_Witness ==
    /\ Done(1) /\ len = 0
    /\ qarg[1].op = "within_range" /\ Len(qarg[1].point) = dim
    /\ qres[1] = OkResult(<<>>)

\* C6: a call with a point of the wrong length returns WrongDimension at
\* once (no panic), and changes nothing but its own returned value: the
\* index and every heap are as before the call, so that after it the program
\* is in the state it would be in without it.
C6_WrongDimensionStep ==
    \A t \in Threads :
        (bpc = "built" /\ qpc[t] = "idle" /\ qpc'[t] # "idle"
            /\ Len(qarg'[t].point) # dim) =>
                /\ qpc'[t] = "done"
                /\ qres'[t] = ErrResult
                /\ UNCHANGED <<buildVars, queue, out>>
                /\ \A u \in Threads \ {t} :
                      qpc'[u] = qpc[u] /\ qarg'[u] = qarg[u] /\ qres'[u] = qres[u]

C6_WrongDimensionIsHarmless == [][C6_WrongDimensionStep]_vars

\* A call with a point of the wrong length has returned on a non-empty index.
C6_Witness ==
    /\ Done(1) /\ len > 0
    /\ Len(qarg[1].point) # dim
    /\ qres[1] = ErrResult

\* C7: BallTree::new returns ZeroDimension exactly for a batch of zero
\* columns, whatever its rows and before any node is built; the index it
\* returns otherwise has dim = the columns and len = the rows of the batch.
C7_ZeroDimensionIffNoColumns ==
    /\ bpc = "err" => batch.ncols = 0 /\ tree = <<>> /\ stack = <<>>
    /\ batch.ncols = 0 => bpc \in {"start", "err"}
    /\ bpc = "built" => batch.ncols >= 1 /\ dim = batch.ncols /\ len = NRows
    /\ bpc = "built" /\ NRows > 0 => <<>> \in DOMAIN tree

\* An index of zero rows has been returned.
C7_Witness == bpc = "built" /\ len = 0 /\ dim = MaxCols

\* C8: k_nearest(point, 0) on a non-empty index returns an empty sequence
\* and does not panic.
C8_KNearestZero ==
    \A t \in Threads :
        DoneValid(t, "k_nearest") /\ qarg[t].k = 0 /\ len > 0 =>
            qres[t] = OkResult(<<>>)

\* C9: with leaf_size >= 1 every recursive call of BallTreeInner::new gets
\* fewer points than its caller, and the build ends.
C9_CallsShrink ==
    (bpc = "building" /\ leaf_size >= 1 /\ stack # <<>> /\ Len(stack') > Len(stack)) =>
        /\ Len(stack'[1].points) < Len(stack[1].points)
        /\ Len(stack'[2].points) < Len(stack[1].points)

C9_BuildTerminates ==
    /\ [][C9_CallsShrink]_vars
    /\ (leaf_size >= 1) => <>(bpc \in {"built", "err"})

\* A batch of identical rows has been split down to single points.
C9_Witness ==
    /\ bpc = "built" /\ NRows = MaxRows /\ leaf_size = 1
    /\ \A i \in 1..NRows : Row(i) = Row(1)
    /\ IsBranchRoot

\* C10: in every interleaving of the steps of two queries on one built
\* index, a step writes the queue, the result heap and the call state of one
\* thread only and leaves the index as it is, and a call that returns
\* returns a value that the same call may return when it runs alone.
C10_IsolatedStep ==
    /\ bpc = "built" => UNCHANGED buildVars
    /\ \E t \in Threads : \A u \in Threads \ {t} :
          /\ queue'[u] = queue[u] /\ out'[u] = out[u]
          /\ qpc'[u] = qpc[u] /\ qarg'[u] = qarg[u] /\ qres'[u] = qres[u]
    /\ \A t \in Threads :
          (qpc[t] # "done" /\ qpc'[t] = "done") =>
              qres'[t] \in RunAlone(EnterCall(qarg'[t]), qarg'[t])

C10_ConcurrentQueriesAreIsolated == [][C10_IsolatedStep]_vars

\* A 2-nearest query of thread 1 has returned its two points while a query
\* of thread 2 for another point is in its loop with a candidate in its
\* result heap and a node in its queue.
C10_Witness ==
    /\ Done(1) /\ qarg[1].op = "k_nearest" /\ qarg[1].k = 2
    /\ qres[1].kind = "Ok" /\ Len(qres[1].points) = 2
    /\ qpc[2] = "run" /\ qarg[2].point # qarg[1].point
    /\ out[2] # <<>> /\ queue[2] # <<>>

----------------------------------------------------------------------------
\* The nodes of the tree and the points under them.

IsPrefix(p, q) == Len(p) <= Len(q) /\ SubSeq(q, 1, Len(p)) = p

\* The paths of the leaves at or under the node at path.
LeavesUnder(path) ==
    {q \in DOMAIN tree : IsPrefix(path, q) /\ tree[q].kind = "Leaf"}

\* The points (rows) stored in the leaves at or under the node at path.
PointsUnder(path) == UNION {Elems(tree[q].points) : q \in LeavesUnder(path)}

\* The point pt is within the radius of the node: its reduced distance to
\* the center is at most the reduced radius.
WithinSphere(node, p) == RLeq(RDistance(p, node.center), DistToRDist(node.radius))

\* C11: for every node of a tree that BallTreeInner::new has built or is
\* building, Leaf or Branch, every point stored in a leaf under the node is
\* within the node's radius of the node's center.
C11_BoundingSphere ==
    \A path \in DOMAIN tree :
        \A pt \in PointsUnder(path) : WithinSphere(tree[path], Row(pt))

\* A built tree of three rows with a Branch root that has a point on its
\* sphere and, apart from its center, a point inside of it.
C11_Witness ==
    /\ bpc = "built" /\ IsBranchRoot /\ NRows = 3
    /\ PointsUnder(<<>>) = 1..3
    /\ \E pt \in 1..3 : RDistance(Row(pt), Root.center) = DistToRDist(Root.radius)
    /\ \E pt \in 1..3 :
          /\ Row(pt) # Row(Root.median)
          /\ ~RGeq(RDistance(Row(pt), Root.center), DistToRDist(Root.radius))

----------------------------------------------------------------------------
\* The steps of the loop of nn_helper.

\* Thread t's call is in its loop and this step is an iteration of it.
Iterates(t) ==
    /\ bpc = "built" /\ qpc[t] = "run"
    /\ <<qpc'[t], queue'[t], out'[t]>> # <<qpc[t], queue[t], out[t]>>

\* The reduced distance of thread t's query point to the point pt.
QDist(t, pt) == PointRDistance(qarg[t].point, pt)

\* The children of the branch at path that the step did not push.
NotPushed(t, path) ==
    {c \in {path \o <<0>>, path \o <<1>>} :
        \A j \in 1..Len(queue'[t]) : queue'[t][j].elem # c}

\* C12: a subtree that a query never scans holds no point that the leaf scan
\* would have put into the final result.  When the loop ends (by a break or
\* with its queue empty) no point under an entry still in the queue, the
\* popped one included, passes the test of the leaf scan against the final
\* heap; and no point under a child that a Branch step does not push is below
\* the limit.
C12_PruningStep ==
    \A t \in Threads :
        Iterates(t) =>
            /\ (qpc'[t] = "done" /\ qres'[t].kind = "Ok") =>
                  \A j \in 1..Len(queue[t]) :
                      \A pt \in PointsUnder(queue[t][j].elem) :
                          Accepts(QDist(t, pt), out[t], qarg[t].k, qarg[t].max_radius) # "yes"
            /\ qpc'[t] = "run" =>
                  \A i \in MinIdx(queue[t]) :
                      (/\ tree[queue[t][i].elem].kind = "Branch"
                       /\ out'[t] = out[t]
                       /\ SubSeq(queue'[t], 1, Len(queue[t]) - 1) = RemoveAt(queue[t], i)) =>
                          \A c \in NotPushed(t, queue[t][i].elem) :
                              \A pt \in PointsUnder(c) :
                                  ~RLt(QDist(t, pt), qarg[t].max_radius)

C12_PruningIsSound == [][C12_PruningStep]_vars

\* A range query has popped the Branch root and pushed one child only; the
\* other child holds points, and the loop is about to go on.
C12_Witness ==
    /\ bpc = "built" /\ qpc[1] = "run" /\ qarg[1].op = "within_range"
    /\ IsBranchRoot
    /\ Len(queue[1]) = 1 /\ Len(queue[1][1].elem) = 1 /\ out[1] = <<>>
    /\ \A c \in {<<0>>, <<1>>} : PointsUnder(c) # {}
    /\ StopTest(queue[1][1].dist, out[1], qarg[1].k, qarg[1].max_radius) = "go"

\* The distance of the entry that queue.pop() returns next.
PoppedDist(t) == queue[t][CHOOSE i \in MinIdx(queue[t]) : TRUE].dist

\* This step of thread t pops an entry and the call does not panic.
Pops(t) ==
    /\ Iterates(t) /\ queue[t] # <<>>
    /\ ~(qpc'[t] = "done" /\ qres'[t].kind = "Panic")

\* The popped distance has reached the limit / the worst of k candidates.
PastLimit(t) == RGeq(PoppedDist(t), qarg[t].max_radius)
PastWorst(t) ==
    /\ Len(out[t]) = qarg[t].k /\ out[t] # <<>>
    /\ RGeq(PoppedDist(t), PeekDist(out[t]))

\* C13 as stated: the loop stops at a popped entry only when the popped
\* distance has reached both the limit and, once the heap holds k
\* candidates, the worst of them; reaching one of the two is not enough.
C13_StopsPastBothStep ==
    \A t \in Threads :
        (Pops(t) /\ qpc'[t] = "done") =>
            /\ PastLimit(t)
            /\ Len(out[t]) = qarg[t].k => PastWorst(t)

C13_StopsOnlyPastBoth == [][C13_StopsPastBothStep]_vars

\* C13 as amended: the loop stops when its queue is empty, and at a popped
\* entry exactly when the popped distance has reached the limit or, with k
\* candidates in the heap, the worst of them; either one is enough.
C13_StopsPastEitherStep ==
    \A t \in Threads :
        /\ (Iterates(t) /\ queue[t] = <<>>) => qpc'[t] = "done"
        /\ Pops(t) => (qpc'[t] = "done" <=> (PastLimit(t) \/ PastWorst(t)))

C13_StopsPastEither == [][C13_StopsPastEitherStep]_vars

\* A k-nearest query with a full heap is about to pop an entry that has
\* reached the worst candidate; the limit is infinite.
C13_Witness ==
    /\ bpc = "built" /\ qpc[1] = "run" /\ qarg[1].op = "k_nearest"
    /\ queue[1] # <<>> /\ PastWorst(1) /\ ~PastLimit(1)
    /\ PointsUnder(queue[1][1].elem) # {}

----------------------------------------------------------------------------
\* The scan of a leaf, point by point.

\* The leaves that the next iteration of thread t's loop may scan: the
\* entries that queue.pop() may return, that pass the test of the loop and
\* are leaves.
NextLeaves(t) ==
    {queue[t][i].elem : i \in {i \in MinIdx(queue[t]) :
        /\ StopTest(queue[t][i].dist, out[t], qarg[t].k, qarg[t].max_radius) = "go"
        /\ tree[queue[t][i].elem].kind = "Leaf"}}

\* The heaps that the scan of the first j points of the leaf may leave.
AfterPoints(t, leaf, j) ==
    ScanLeaf(out[t], SubSeq(tree[leaf].points, 1, j), 1,
             qarg[t].point, qarg[t].k, qarg[t].max_radius)

\* The heaps that the scan of the one point pt may leave, from the heap o.
AfterPoint(t, o, pt) ==
    ScanLeaf(o, <<pt>>, 1, qarg[t].point, qarg[t].k, qarg[t].max_radius)

\* The points of the leaves that are under no entry of the queue: the points
\* scanned so far and those of the children never pushed.
OffQueue(t) ==
    PointsUnder(<<>>) \ UNION {PointsUnder(queue[t][j].elem) : j \in 1..Len(queue[t])}

BelowLimit(t, pt) == RLt(QDist(t, pt), qarg[t].max_radius)

HeapPoints(o) == {o[i].elem : i \in 1..Len(o)}

\* The heap o holds k of the nearest points of S, or all of S if S has
\* fewer than k.
HoldsNearest(t, o, S) ==
    /\ HeapPoints(o) \subseteq S
    /\ Len(o) = Min2(qarg[t].k, Cardinality(S))
    /\ Cardinality(HeapPoints(o)) = Len(o)
    /\ \A h \in HeapPoints(o) : \A x \in S \ HeapPoints(o) :
          RowDist(qarg[t].point, h) <= RowDist(qarg[t].point, x)

\* C14: in the scan of a leaf, a point is inserted into the result heap if
\* and only if its reduced distance is strictly below the limit and the heap
\* holds fewer than k entries or the distance is strictly below the worst
\* entry; after each point the heap holds at most k entries, all strictly
\* below the limit, and they are the k nearest of the points below the limit
\* that have been scanned so far.
C14_LeafScanRule ==
    \A t \in Threads : (bpc = "built" /\ qpc[t] = "run") =>
        \A leaf \in NextLeaves(t) : \A j \in 0..(Len(tree[leaf].points) - 1) :
            \A r \in AfterPoints(t, leaf, j) :
                LET pt == tree[leaf].points[j + 1]
                    d == QDist(t, pt)
                    seen == {x \in OffQueue(t) \cup Elems(SubSeq(tree[leaf].points, 1, j + 1)) :
                                BelowLimit(t, x)}
                IN  /\ ~r.panic
                    /\ \A r2 \in AfterPoint(t, r.heap, pt) :
                          /\ ~r2.panic
                          /\ pt \in HeapPoints(r2.heap) <=>
                                (RLt(d, qarg[t].max_radius) /\
                                   (Len(r.heap) < qarg[t].k \/ RLt(d, PeekDist(r.heap))))
                          /\ Len(r2.heap) <= qarg[t].k
                          /\ \A x \in HeapPoints(r2.heap) : BelowLimit(t, x)
                          /\ \A i \in 1..Len(r2.heap) :
                                r2.heap[i].dist = QDist(t, r2.heap[i].elem)
                          /\ HoldsNearest(t, r2.heap, seen)

\* A 1-nearest query holds a candidate of an earlier leaf and is about to
\* scan a leaf with a nearer point, which will take its place.
C14_Witness ==
    /\ bpc = "built" /\ qpc[1] = "run" /\ qarg[1].k = 1 /\ Len(out[1]) = 1
    /\ \E leaf \in NextLeaves(1) : \E pt \in Elems(tree[leaf].points) :
          RLt(QDist(1, pt), PeekDist(out[1]))

----------------------------------------------------------------------------
\* The lower bound of a node.

\* The nodes that have a center of the batch's dimension (a Leaf without
\* points has a center of no dimension).
SizedNodes == {path \in DOMAIN tree : Len(tree[path].center.sum) = batch.ncols}

RZero == DistToRDist(DistZero)

\* C15: the lower bound of a node for a query point is max(0, distance to the
\* center - radius), squared: it is 0 when the point is in the node's sphere
\* and the square of the distance to the sphere otherwise, and it is never
\* above the reduced distance of the query point to a point stored under the
\* node.
C15_LowerBoundAdmissible ==
    \A path \in SizedNodes : \A p \in Vecs(batch.ncols) :
        LET node == tree[path]
            lb == NodeRDistance(node, p)
        IN  /\ WithinSphere(node, p) => RCmp(lb, RZero) = 0
            /\ ~WithinSphere(node, p) =>
                  /\ RCmp(lb, RZero) > 0
                  /\ lb = DistToRDist(DistSub(Distance(p, node.center), node.radius))
            /\ \A pt \in PointsUnder(path) :
                  RLeq(lb, RDistance(p, PointCenter(Row(pt))))

\* A built tree with a Branch root of non-zero radius; one point of the
\* space is strictly inside its sphere and is not its center, another is
\* outside of it.
C15_Witness ==
    /\ bpc = "built" /\ IsBranchRoot /\ RCmp(DistToRDist(Root.radius), RZero) > 0
    /\ \E p \in Vecs(batch.ncols) :
          /\ p # Row(Root.median)
          /\ RLt(RDistance(p, Root.center), DistToRDist(Root.radius))
    /\ \E p \in Vecs(batch.ncols) : ~WithinSphere(Root, p)

----------------------------------------------------------------------------
\* The cap of a range query.

\* C16: in within_range the cap k is the number of points of the index; the
\* result heap never holds more than len entries, and whenever the leaf scan
\* inserts a point the heap holds fewer than k entries before the push, so
\* that the pop after the push is never taken.
C16_WithinRangeNeverEvicts ==
    \A t \in Threads :
        (bpc = "built" /\ qpc[t] = "run" /\ qarg[t].op = "within_range") =>
            /\ qarg[t].k = len
            /\ Len(out[t]) <= len
            /\ \A leaf \in NextLeaves(t) : \A j \in 0..(Len(tree[leaf].points) - 1) :
                  \A r \in AfterPoints(t, leaf, j) :
                      LET pt == tree[leaf].points[j + 1]
                          e == [elem |-> pt, dist |-> QDist(t, pt)]
                      IN  Accepts(e.dist, r.heap, qarg[t].k, qarg[t].max_radius) = "yes" =>
                              /\ Len(r.heap) < qarg[t].k
                              /\ PushBounded(r.heap, e, qarg[t].k) = {Append(r.heap, e)}

\* A range query on a tree of three rows with a Branch root holds all three
\* of them in its result heap.
C16_Witness ==
    /\ bpc = "built" /\ qpc[1] = "run" /\ qarg[1].op = "within_range"
    /\ IsBranchRoot /\ len = 3 /\ Len(out[1]) = 3

----------------------------------------------------------------------------
\* The end of the loop.

\* The nodes at or under an entry of thread t's queue: those that the loop
\* may still pop.
Pending(t) ==
    {q \in DOMAIN tree : \E j \in 1..Len(queue[t]) : IsPrefix(queue[t][j].elem, q)}

\* No node is twice in the queue, alone or under another entry.
QueuedOnce(q) ==
    \A i, j \in 1..Len(q) : i # j => ~IsPrefix(q[i].elem, q[j].elem)

\* C17: every query ends.  An iteration of the loop that does not end the
\* call pops one node, which is then no more among the nodes at or under an
\* entry of the queue, and adds to them none: a node is pushed at most once
\* and popped at most once, a leaf is scanned at most once, and the number
\* of pops is at most the number of nodes.  A call in its loop returns, and
\* with k >= 1 the loop ends by its break or with its queue empty, not by a
\* panic.
C17_PopsShrinkStep ==
    \A t \in Threads :
        /\ (bpc = "built" /\ qpc[t] = "run") =>
              QueuedOnce(queue[t]) /\ Cardinality(Pending(t)) <= Cardinality(DOMAIN tree)
        /\ (Iterates(t) /\ qpc'[t] = "run") =>
              /\ Pending(t)' \subseteq Pending(t)
              /\ Cardinality(Pending(t)') < Cardinality(Pending(t))
              /\ \E i \in MinIdx(queue[t]) : queue[t][i].elem \notin Pending(t)'
              /\ QueuedOnce(queue'[t])
        /\ (Iterates(t) /\ qpc'[t] = "done" /\ qarg[t].k >= 1) => qres'[t].kind = "Ok"

----------------------------------------------------------------------------
\* partition, as BallTreeInner::new calls it.

\* This step is a call of BallTreeInner::new that takes its Branch arm with
\* at least two points: it calls partition(points).
Partitions ==
    /\ bpc = "building" /\ stack # <<>> /\ Len(stack') = Len(stack) + 1
    /\ Len(Top.points) >= 2

\* The arguments and the results of that call of partition.
PInput == Top.points
PLeft == stack'[1].points
PRight == stack'[2].points
PMedian == tree'[Top.path].median
PDim == MaxSpreadDim(PInput)

\* The sequence s holds every element of t, as often as t does (the
\* elements of t are row indices, all different).
IsPermOf(s, t) == Len(s) = Len(t) /\ Elems(s) = Elems(t)

\* C18 as stated: left, the median and right together are a permutation of
\* the input; the median is counted once and is not in left or right.
C18_MedianApartStep ==
    Partitions =>
        /\ IsPermOf(PLeft \o <<PMedian>> \o PRight, PInput)
        /\ PMedian \notin Elems(PLeft) \cup Elems(PRight)

C18_MedianApart == [][C18_MedianApartStep]_vars

\* C18 as amended: left and right together are a permutation of the input;
\* the median is a point of the input that is also in right, or is the one
\* point of left when left would have been empty and got the median.
C18_MedianStaysStep ==
    Partitions =>
        /\ IsPermOf(PLeft \o PRight, PInput)
        /\ PMedian \in Elems(PInput)
        /\ PMedian \in Elems(PRight) \/ PLeft = <<PMedian>>
        /\ Len(PLeft \o <<PMedian>> \o PRight) = Len(PInput) + 1

C18_MedianStays == [][C18_MedianStaysStep]_vars

\* The root call has split three different rows; the median is the first
\* point of the right part, which has two.
C18_Witness ==
    /\ bpc = "building" /\ NRows = 3 /\ NoRepeat(batch.rows)
    /\ Len(stack) = 2 /\ stack[1].path = <<0>> /\ stack[2].path = <<1>>
    /\ Len(stack[2].points) = 2
    /\ tree[<<>>].median \in Elems(stack[2].points)

\* C19: for every input of two points or more, identical points included,
\* partition returns a left and a right part that are both non-empty and
\* both smaller than the input.
C19_BothPartsStep ==
    Partitions =>
        /\ PLeft # <<>> /\ PRight # <<>>
        /\ Len(PLeft) < Len(PInput) /\ Len(PRight) < Len(PInput)

C19_BothPartsNonEmptySmaller == [][C19_BothPartsStep]_vars

\* The root call has split three identical rows into one and two.
C19_Witness ==
    /\ bpc = "building" /\ NRows = 3
    /\ \A i \in 1..NRows : Row(i) = Row(1)
    /\ Len(stack) = 2 /\ stack[1].path = <<0>> /\ stack[2].path = <<1>>
    /\ Len(stack[1].points) = 1 /\ Len(stack[2].points) = 2

\* The points of the input are not all identical.
NonDegenerate(points) == \E i, j \in Elems(points) : Row(i) # Row(j)

\* C20: for every input of two points or more that are not all identical,
\* every point of left is strictly below the median on the split dimension,
\* also when several points tie with the smallest value on it.
C20_LeftBelowMedianStep ==
    (Partitions /\ NonDegenerate(PInput)) =>
        \A pt \in Elems(PLeft) : Row(pt)[PDim] < Row(PMedian)[PDim]

C20_LeftStrictlyBelowMedian == [][C20_LeftBelowMedianStep]_vars

----------------------------------------------------------------------------
\* The split dimension and the median.

\* The dimensions of the points on which their range is maximal.
WidestDims(points) ==
    LET nd == Len(Row(points[1]))
    IN  {d \in 1..nd : \A e \in 1..nd : Spread(points, e) <= Spread(points, d)}

\* The point m has rank Len(points) \div 2 (zero-based) among the points in
\* the order of their coordinates on dimension d.
HasMidRank(m, points, d) ==
    LET mid == Len(points) \div 2
    IN  /\ Cardinality({pt \in Elems(points) : Row(pt)[d] < Row(m)[d]}) <= mid
        /\ Cardinality({pt \in Elems(points) : Row(pt)[d] <= Row(m)[d]}) >= mid + 1

\* C21: partition splits along a dimension of maximal range, and of several
\* such dimensions along the first: the median it returns has the middle
\* rank on the lowest dimension of maximal range.
C21_FirstWidestStep ==
    Partitions =>
        /\ PDim \in WidestDims(PInput)
        /\ HasMidRank(PMedian, PInput, SetMin(WidestDims(PInput)))

C21_SplitsOnFirstWidestDim == [][C21_FirstWidestStep]_vars

\* The rows of a sequence of points, as a set of vectors.
RowsOf(points) == {Row(points[i]) : i \in 1..Len(points)}

\* What a call of partition hands back, by value: the rows of left, the
\* median row and the rows of right.
PartitionValues(points) ==
    {[left |-> RowsOf(part.left), median |-> Row(part.median),
      right |-> RowsOf(part.right)] : part \in Partition(points)}

\* The coordinates of the points on dimension d are pairwise different.
DistinctOn(points, d) ==
    \A i, j \in 1..Len(points) :
        Row(points[i])[d] = Row(points[j])[d] => i = j

\* C22: the median returned by partition has rank Len \div 2 (zero-based)
\* on the chosen dimension; when the coordinates on that dimension are
\* pairwise different, every order of the input rows gives the same left
\* set, median and right set.
C22_MedianRankStep ==
    Partitions =>
        /\ HasMidRank(PMedian, PInput, PDim)
        /\ DistinctOn(PInput, PDim) =>
               \A perm \in Perms(PInput) :
                   PartitionValues(perm) =
                       {[left |-> RowsOf(PLeft), median |-> Row(PMedian),
                         right |-> RowsOf(PRight)]}

C22_MedianRankOrderFree == [][C22_MedianRankStep]_vars

\* A call of partition on three points with pairwise different coordinates
\* on the split dimension has returned.
C22_Witness ==
    /\ bpc = "building"
    /\ <<>> \in DOMAIN tree
    /\ tree[<<>>].kind = "Branch"
    /\ NRows = 3
    /\ \E d \in 1..batch.ncols :
           /\ d = MaxSpreadDim(<<1, 2, 3>>)
           /\ DistinctOn(<<1, 2, 3>>, d)
           /\ batch.rows[1][d] > batch.rows[2][d]

\* The points of the input that are strictly below the median on the split
\* dimension.
PBelow == {pt \in Elems(PInput) : Row(pt)[PDim] < Row(PMedian)[PDim]}

\* C23: when no input point is strictly below the median on the split
\* dimension, partition moves exactly one point from right to left (left
\* has 1 point, right the other len - 1); when some point is below, nothing
\* is moved (left is the points below, right the others) and every point of
\* right is at or above the median.
C23_GuardStep ==
    Partitions =>
        /\ IsPermOf(PLeft \o PRight, PInput)
        /\ PBelow = {} =>
               /\ Len(PLeft) = 1
               /\ Len(PRight) = Len(PInput) - 1
        /\ PBelow # {} =>
               /\ Elems(PLeft) = PBelow
               /\ Elems(PRight) = Elems(PInput) \ PBelow
               /\ \A pt \in Elems(PRight) : Row(pt)[PDim] >= Row(PMedian)[PDim]

C23_GuardMovesExactlyOne == [][C23_GuardStep]_vars

\* A built tree whose root split three equal rows: no point was below the
\* median, the guard moved one of them to the left child.
C23_Witness ==
    /\ bpc = "built"
    /\ IsBranchRoot
    /\ batch.rows = <<<<1>>, <<1>>, <<1>>>>
    /\ Cardinality(PointsUnder(<<0>>)) = 1
    /\ Cardinality(PointsUnder(<<1>>)) = 2

----------------------------------------------------------------------------
\* The shape of the built tree.

\* The paths of the leaves of the tree.
Leaves == LeavesUnder(<<>>)

\* C24: in a tree built or being built with leaf_size >= 1 from a batch with
\* at least one row, every leaf holds at least 1 and at most leaf_size
\* points, also under a split that the guard for equal points made.
C24_LeafSizeBounds ==
    leaf_size >= 1 /\ NRows >= 1 =>
        \A q \in Leaves :
            /\ Len(tree[q].points) >= 1
            /\ Len(tree[q].points) <= leaf_size

\* A built tree of three equal rows with leaf_size = 1: two splits by the
\* guard, three leaves of one point each.
C24_Witness ==
    /\ bpc = "built"
    /\ leaf_size = 1
    /\ batch.rows = <<<<1>>, <<1>>, <<1>>>>
    /\ Cardinality(Leaves) = 3
    /\ \A q \in Leaves : Len(tree[q].points) = 1

\* The places where point pt is stored: in a leaf, or in the points of a call
\* of BallTreeInner::new that has not run yet.
LeafSlots(pt) ==
    {<<q, j>> \in Leaves \X (1..MaxRows) :
        j <= Len(tree[q].points) /\ tree[q].points[j] = pt}

CallSlots(pt) ==
    {<<c, j>> \in (1..Len(stack)) \X (1..MaxRows) :
        j <= Len(stack[c].points) /\ stack[c].points[j] = pt}

\* C25: the leaves of a built tree partition the input: every row of the
\* batch, a branch median included, is stored exactly once in exactly one
\* leaf, and the leaves store nothing else. While the tree is being built,
\* every row is exactly once in a leaf or in a call still to run.
C25_LeavesPartitionInput ==
    bpc \in {"building", "built"} =>
        /\ \A pt \in 1..NRows :
               Cardinality(LeafSlots(pt)) + Cardinality(CallSlots(pt)) = 1
        /\ \A q \in Leaves : Elems(tree[q].points) \subseteq 1..NRows
        /\ bpc = "built" => stack = <<>>

\* A built tree of three rows with two levels of branches, whose root median
\* is stored in a leaf.
C25_Witness ==
    /\ bpc = "built"
    /\ NRows = 3
    /\ Cardinality(Leaves) = 3
    /\ IsBranchRoot
    /\ Cardinality(LeafSlots(tree[<<>>].median)) = 1

\* The call at the top of the stack is not a leaf call: it calls partition.
CallsPartition == bpc = "building" /\ stack # <<>> /\ ~IsLeafCall(Top.points)

\* C26: for every batch and every leaf_size, 0 included, partition is only
\* called on 2 points or more, and neither debug assertion of the build
\* (2 points or more before the split, both parts non-empty after it) fails.
C26_PartitionPrecondition ==
    /\ CallsPartition => Len(Top.points) >= 2
    /\ bpc \notin {"panic", "overflow"}

\* The reduced distance that is the integer r.
RDistOfInt(r) == [m |-> 1, p |-> r, q |-> 0]

\* C27: a batch of n rows, 1 <= n <= leaf_size, is built into a single Leaf
\* that holds all n points, with the coordinate-wise mean of the points as
\* center and the largest distance of a point to that center as radius; the
\* points [0,1], [2,3] give the center [1,2] and the squared radius 2.
C27_SingleLeaf ==
    bpc = "built" /\ 1 <= NRows /\ NRows <= leaf_size =>
        LET leaf == tree[<<>>]
        IN  /\ DOMAIN tree = {<<>>}
            /\ leaf.kind = "Leaf"
            /\ leaf.points = [i \in 1..NRows |-> i]
            /\ leaf.center.n = NRows
            /\ \A c \in 1..batch.ncols :
                   leaf.center.sum[c] =
                       SumTo([i \in 1..NRows |-> batch.rows[i][c]], NRows)
            /\ \A i \in 1..NRows :
                   RLeq(RDistance(Row(i), leaf.center), DistToRDist(leaf.radius))
            /\ \E i \in 1..NRows :
                   RCmp(RDistance(Row(i), leaf.center), DistToRDist(leaf.radius)) = 0
            /\ batch \in TestBatches =>
                   /\ \A c \in 1..2 : leaf.center.sum[c] = leaf.center.n * <<1, 2>>[c]
                   /\ RCmp(DistToRDist(leaf.radius), RDistOfInt(2)) = 0

\* The tree built from the points [0,1], [2,3] with leaf_size = 2.
C27_Witness ==
    /\ bpc = "built"
    /\ batch.rows = <<<<0, 1>>, <<2, 3>>>>
    /\ leaf_size = 2
    /\ tree[<<>>].kind = "Leaf"

\* The paths of the branches of the tree.
Branches == {q \in DOMAIN tree : tree[q].kind = "Branch"}

\* The radius of the node is the largest distance of the center to a point
\* of the set pts: no point is farther, and one is exactly that far.
RadiusAttained(node, pts) ==
    /\ \A pt \in pts : WithinSphere(node, Row(pt))
    /\ \E pt \in pts :
           RCmp(RDistance(Row(pt), node.center), DistToRDist(node.radius)) = 0

\* In a built tree the center of every branch is a row of the batch and its
\* radius is attained by a point stored under it.
BuiltBranches ==
    bpc = "built" =>
        \A q \in Branches :
            /\ tree[q].median \in 1..NRows
            /\ tree[q].center = PointCenter(batch.rows[tree[q].median])
            /\ RadiusAttained(tree[q], PointsUnder(q))

\* C28: a Branch has the median returned by partition, a row of the batch,
\* as center, and as radius the largest distance of that median to a point
\* of left and right together; it is set when the branch is made, before the
\* children are built, and no node changes afterwards, so that in the built
\* tree the radius is attained by a point under the branch.
C28_BranchStep ==
    /\ Partitions =>
           LET node == tree'[Top.path]
           IN  /\ node.kind = "Branch"
               /\ PMedian \in Elems(PInput)
               /\ node.center.n = 1
               /\ node.center.sum = batch.rows[PMedian]
               /\ RadiusAttained(node, Elems(PLeft) \cup Elems(PRight))
    /\ \A q \in DOMAIN tree : q \in DOMAIN tree' /\ tree'[q] = tree[q]
    /\ BuiltBranches'

C28_BranchCenterAndRadius == [][C28_BranchStep]_vars

\* A built tree of three different rows with two levels of branches, whose
\* root has a positive radius.
C28_Witness ==
    /\ bpc = "built"
    /\ NRows = 3
    /\ Cardinality(Branches) = 2
    /\ IsBranchRoot
    /\ RCmp(DistToRDist(tree[<<>>].radius), RZero) > 0

----------------------------------------------------------------------------
\* The builder.

====
